---- MODULE Spec2Model ----
(***************************************************************************)
(* Order lifecycle and stock reservation of the e-commerce backend         *)
(* (controllers/orderController.js over the Order and Product models).     *)
(*                                                                         *)
(* Each request handler is a process that moves from one database call to  *)
(* the next.  A handler that runs inside session.withTransaction reads a   *)
(* snapshot of the database taken at its first read, sees its own writes,  *)
(* and publishes its writes at commit; a write to a document that another  *)
(* writer has changed since the snapshot is a write conflict, on which     *)
(* withTransaction runs the callback again.  A handler outside a           *)
(* transaction reads the committed state at its findById and later sends   *)
(* the paths it modified with save().                                      *)
(*                                                                         *)
(* Money is counted in cents.  A date is the tick of the logical clock at  *)
(* which the request arrived.                                              *)
(***************************************************************************)
EXTENDS Integers, Sequences, FiniteSets, TLC

\* Number of requests the clients send in one run.
MaxRequests == 2
\* commits that may fail in one request
MaxCommitFailures == 1

Procs == {"r1", "r2"}
Users == {"u1", "u2", "admin"}
Customers == {"u1"}
Products == {"A", "B"}
UnknownProduct == "X"

Undef == -1
NoDate == -1
NoSuchOrder == 0
NoPayId == 0

\* tolerance of the price comparison, in cents
Tolerance == 1

IsAdmin(u) == u = "admin"

\* ------------------------------------------------------------ catalog

Price == [p \in Products |-> IF p = "A" THEN 2000 ELSE 3000]
SalePrice == [p \in Products |-> IF p = "A" THEN 1500 ELSE Undef]
SaleEndDate == [p \in Products |-> IF p = "A" THEN 2 ELSE NoDate]
TotalStock == [p \in Products |-> IF p = "A" THEN 2 ELSE 1]

\* the price createOrder and reorder charge for product p at date t
currentPrice(p, t) ==
    IF SalePrice[p] # Undef /\ SalePrice[p] # 0
       /\ SaleEndDate[p] # NoDate /\ SaleEndDate[p] > t
    THEN SalePrice[p]
    ELSE Price[p]

Abs(x) == IF x < 0 THEN -x ELSE x

RECURSIVE SumSeq(_)
SumSeq(s) == IF s = <<>> THEN 0 ELSE Head(s) + SumSeq(Tail(s))

\* ------------------------------------------------------------ documents

Address == [address |-> "street", city |-> "town"]
NoCity == [address |-> "street", city |-> ""]

NoPaymentResult == [id |-> NoPayId, status |-> "", update_time |-> NoDate, email_address |-> ""]

\* an order document as new Order({...}) builds it, with the schema's defaults
NewOrder(user, items, body, calc, t) ==
    LET ship == IF body.shippingPrice = Undef THEN 0 ELSE body.shippingPrice
        tax == IF body.taxPrice = Undef THEN 0 ELSE body.taxPrice
    IN [user |-> user,
        orderItems |-> items,
        shippingAddress |-> body.shippingAddress,
        paymentMethod |-> body.paymentMethod,
        paymentResult |-> NoPaymentResult,
        itemsPrice |-> calc,
        shippingPrice |-> ship,
        taxPrice |-> tax,
        totalPrice |-> calc + ship + tax,
        isPaid |-> FALSE, paidAt |-> NoDate,
        isDelivered |-> FALSE, deliveredAt |-> NoDate,
        isCanceled |-> FALSE, canceledAt |-> NoDate,
        customStatus |-> "Pending",
        statusHistory |-> <<>>,
        createdAt |-> t]

HistoryEntry(status, user, t) == [status |-> status, changedBy |-> user, changedAt |-> t]

\* ------------------------------------------------------------ requests

\* an item of req.body.orderItems with the price c the client wrote in it
PricedLine(p, q, c) == [product |-> p, qty |-> q, price |-> c]
Line(p, q) == PricedLine(p, q, Undef)

\* the price a client writes into an item to pay less
TamperedPrice == 100

ItemLists ==
    {<<>>, <<Line("A", 1)>>, <<Line("A", 2)>>, <<Line("B", 1)>>,
     <<PricedLine("A", 1, TamperedPrice)>>,
     <<Line("A", 1), Line("B", 1)>>, <<Line("A", 1), Line("A", 1)>>,
     <<Line("A", 1), Line(UnknownProduct, 1)>>, <<Line("A", 1), Line("B", 0)>>}

\* what the server will compute for the items at date t (unknown products count 0)
Expected(items, t) ==
    SumSeq([i \in 1..Len(items) |->
        IF items[i].product \in Products
        THEN currentPrice(items[i].product, t) * items[i].qty ELSE 0])

MkBody(items, claimed, ship, tax, addr, pm) ==
    [orderItems |-> items, shippingAddress |-> addr, paymentMethod |-> pm,
     itemsPrice |-> claimed, shippingPrice |-> ship, taxPrice |-> tax]

NoBody == MkBody(<<>>, Undef, Undef, Undef, Address, "")

\* the request bodies a client posts to createOrder at date t: every item list
\* with the right itemsPrice, and one item list with each other field varied
CreateBodies(t) ==
    LET one == <<Line("A", 1)>>
        e == Expected(one, t)
    IN {MkBody(items, Expected(items, t), Undef, Undef, Address, "PayPal") :
            items \in ItemLists}
       \cup {MkBody(one, c, Undef, Undef, Address, "PayPal") :
                c \in {e + Tolerance, e + Tolerance + 1, Undef}}
       \cup {MkBody(<<PricedLine("A", 1, TamperedPrice)>>, TamperedPrice,
                    Undef, Undef, Address, "PayPal")}
       \cup {MkBody(one, e, 500, 100, Address, "PayPal"),
             MkBody(one, e, Undef, Undef, NoCity, "PayPal"),
             MkBody(one, e, Undef, Undef, Address, "")}

\* the payment a client reports at date t, and one without the provider's id
PayBodies(t) ==
    {[id |-> t, status |-> "COMPLETED"], [id |-> NoPayId, status |-> "COMPLETED"]}
NoPay == [id |-> NoPayId, status |-> ""]

\* req.body.updateData of bulkUpdateOrders: the keys it holds and their values
MkUpdate(keys, customStatus, isDelivered, isPaid) ==
    [keys |-> keys, customStatus |-> customStatus,
     isDelivered |-> isDelivered, isPaid |-> isPaid]
NoUpdate == MkUpdate({}, "", FALSE, FALSE)

\* the updateData an admin sends: one allowed field, no field, a field not allowed
UpdateDatas ==
    {MkUpdate({"isDelivered"}, "", TRUE, FALSE),
     MkUpdate({"isPaid"}, "", FALSE, FALSE),
     MkUpdate({"customStatus"}, "Shipped", FALSE, FALSE),
     MkUpdate({"totalPrice"}, "", FALSE, FALSE),
     NoUpdate}

\* req.body.status of updateOrderStatus: valid ones and one that is not
StatusBodies == {"Shipped", "Delivered", "Canceled", "Refunded", ""}

\* ------------------------------------------------------------ state

VARIABLES
    stock,      \* Product.countInStock of every product, as committed
    orders,     \* the Order collection, as committed; an order's id is its index
    h,          \* the handler running on each process
    nreq,       \* requests received so far; the clock
    outbox      \* the cancellation emails handed to setImmediate, and their fate

vars == <<stock, orders, h, nreq, outbox>>

NoView == [stock |-> [p \in Products |-> 0], orders |-> <<>>]

Idle ==
    [op |-> "none", pc |-> "idle", t |-> 0, tEnd |-> 0, user |-> "u1",
     id |-> NoSuchOrder, pid |-> "A", body |-> NoBody, pay |-> NoPay,
     view |-> NoView, staleP |-> {}, staleO |-> {},
     unavailable |-> <<>>, reported |-> <<>>, items |-> <<>>,
     stockAtArrival |-> [p \in Products |-> 0],
     newStatus |-> "", update |-> NoUpdate, ids |-> {},
     mail |-> "none", faults |-> 0, timeline |-> <<>>,
     status |-> 0, err |-> ""]

OrderIds == 1..Len(orders)

\* ------------------------------------------------------------ seed database

SeedItems(t) ==
    <<[product |-> "A", qty |-> 1, price |-> currentPrice("A", t), isCanceled |-> FALSE],
      [product |-> "B", qty |-> 1, price |-> currentPrice("B", t), isCanceled |-> FALSE]>>

\* an order u1 placed at date 0 for one A and one B
SeedOrder ==
    NewOrder("u1", SeedItems(0),
             MkBody(<<>>, Undef, 500, 100, Address, "PayPal"),
             currentPrice("A", 0) + currentPrice("B", 0), 0)

\* the same order after u1 paid it at date 0
SeedPaid ==
    [SeedOrder EXCEPT
        !.isPaid = TRUE, !.paidAt = 0,
        !.paymentResult = [id |-> 100, status |-> "COMPLETED",
                           update_time |-> 0, email_address |-> "u1"],
        !.statusHistory = <<HistoryEntry("Payment Confirmed", "u1", 0)>>]

StockAfter(os) ==
    [p \in Products |->
        TotalStock[p] - SumSeq([k \in 1..Len(os) |->
            SumSeq([i \in 1..Len(os[k].orderItems) |->
                IF os[k].orderItems[i].product = p THEN os[k].orderItems[i].qty ELSE 0])])]

Init ==
    /\ orders \in {<<>>, <<SeedOrder>>, <<SeedPaid>>}
    /\ stock = StockAfter(orders)
    /\ h = [p \in Procs |-> Idle]
    /\ nreq = 0
    /\ outbox = {}

\* ------------------------------------------------------------ transactions

\* the writes are sent without the session: no write ever conflicts
NoConflict(d, stale) == FALSE

\* A write in a transaction to document d, which another writer has changed
\* since the transaction's snapshot, fails with a write conflict.
Conflict(d, stale) == d \in stale

\* The committed stock after a transaction ends: its $inc updates, which took
\* the view from snap to mine, are applied at commit and dropped at abort.
Commit(committed, snap, mine) ==
    [d \in Products |-> committed[d] + (mine[d] - snap[d])]

\* the updates are sent without the session: an abort leaves them applied
KeepWrites(committed, snap, mine) == Commit(committed, snap, mine)

Rollback(committed, snap, mine) == committed

\* ------------------------------------------------------------ handler plumbing

Free(p) == h[p].pc \in {"idle", "done"}

\* a request goes to the first free process
CanArrive(p) ==
    /\ Free(p)
    /\ nreq < MaxRequests
    /\ p = "r1" \/ ~Free("r1")

InTxn(q) == h[q].pc \in {"createBody", "cancelBody", "itemBody"}

Arrive(p, op, pc, user, id, pid, body, pay) ==
    /\ nreq' = nreq + 1
    /\ h' = [h EXCEPT ![p] =
            [Idle EXCEPT !.op = op, !.pc = pc, !.t = nreq + 1, !.user = user,
                         !.id = id, !.pid = pid, !.body = body, !.pay = pay,
                         !.stockAtArrival = stock]]
    /\ UNCHANGED <<stock, orders, outbox>>

\* res.status(status).json(...): the handler ends
Responded(rec, status, err) ==
    [rec EXCEPT !.pc = "done", !.status = status, !.err = err, !.tEnd = nreq,
                !.view = NoView, !.staleP = {}, !.staleO = {}]

\* a response that tells the caller the notification failed
MailStatusSurfaced(ok, success) == IF ok THEN success ELSE 500

\* the status answered after await sendEmail(...) in its try/catch: a
\* rejection is caught and logged
MailStatus(ok, success) == success

\* await sendEmail(...) settles, resolved (ok) or rejected, and the handler
\* goes on to its response; a sender that never settles never takes this step
AwaitMail(p, pc, success) ==
    /\ h[p].pc = pc
    /\ \E ok \in BOOLEAN :
        h' = [h EXCEPT ![p] =
                Responded([@ EXCEPT !.mail = IF ok THEN "sent" ELSE "failed"],
                          MailStatus(ok, success), "")]

\* the handler has written and now calls sendEmail
Sending(rec, pc) ==
    [rec EXCEPT !.pc = pc, !.mail = "sending",
                !.view = NoView, !.staleP = {}, !.staleO = {}]

\* a write conflict: withTransaction aborts and runs the callback again
Retry(rec, pc) ==
    [rec EXCEPT !.pc = pc, !.view = NoView, !.staleP = {}, !.staleO = {}]

\* the handlers after process p has written products wp and orders wo: every
\* other open transaction's snapshot is now stale on them
AfterWrite(p, rec, wp, wo) ==
    [q \in Procs |->
        IF q = p THEN rec
        ELSE IF InTxn(q)
             THEN [h[q] EXCEPT !.staleP = @ \cup wp, !.staleO = @ \cup wo]
             ELSE h[q]]

\* setImmediate(async () => { try { await sendEmail(...) } catch ... }) in the
\* request that arrived at date t: one more email is queued
Dispatch(box, kind, id, t) ==
    box \cup {[kind |-> kind, id |-> id, t |-> t,
               try |-> Cardinality({m \in box : m.t = t}) + 1, state |-> "queued"]}

\* a queued email runs: sendEmail resolves, or rejects and the rejection is
\* caught and logged
NotifySettles ==
    /\ \E m \in outbox : \E st \in {"sent", "failed"} :
        /\ m.state = "queued"
        /\ outbox' = (outbox \ {m}) \cup {[m EXCEPT !.state = st]}
    /\ UNCHANGED <<stock, orders, h, nreq>>

\* ------------------------------------------------------------ createOrder

ReqCreateOrder(p) ==
    /\ CanArrive(p)
    /\ \E u \in Customers : \E b \in CreateBodies(nreq + 1) :
        Arrive(p, "createOrder", "createBegin", u, NoSuchOrder, "A", b, NoPay)

AddressComplete(a) == a.address # "" /\ a.city # ""

\* the catch block's choice of status from the error's message
CreateStatus(err) ==
    IF err \in {"OutOfStock", "ProductNotFound", "PriceMismatch"} THEN 400 ELSE 500

\* the check only refuses a product that is sold out
InsufficientWhenEmpty(have, qty) == have <= 0

\* the update takes one unit whatever the quantity
DecrementOne(have, qty) == have - 1

\* product.countInStock < item.qty
Insufficient(have, qty) == have < qty

\* $inc: { countInStock: -item.qty }
Decrement(have, qty) == have - qty

\* the price of the client's item when it carries one
ClientPrice(item, t) ==
    IF item.price # Undef THEN item.price ELSE currentPrice(item.product, t)

\* const currentPrice = product.salePrice && product.saleEndDate > new Date() ? ...
LinePrice(item, t) == currentPrice(item.product, t)

\* The loop over req.body.orderItems, run against the transaction's view st:
\* the first throw or write conflict ends it.
RECURSIVE CreateItems(_, _, _, _, _, _, _)
CreateItems(items, i, st, enriched, calc, stale, t) ==
    IF i > Len(items)
    THEN [kind |-> "ok", err |-> "", stock |-> st, items |-> enriched, calc |-> calc]
    ELSE LET item == items[i]
             bad(kind, err) ==
                [kind |-> kind, err |-> err, stock |-> st, items |-> enriched, calc |-> calc]
         IN IF item.qty <= 0 THEN bad("throw", "InvalidItem")
            ELSE IF item.product \notin Products THEN bad("throw", "ProductNotFound")
            ELSE IF Insufficient(st[item.product], item.qty) THEN bad("throw", "OutOfStock")
            ELSE IF Conflict(item.product, stale) THEN bad("conflict", "")
            ELSE CreateItems(items, i + 1,
                    [st EXCEPT ![item.product] = Decrement(@, item.qty)],
                    Append(enriched,
                        [product |-> item.product, qty |-> item.qty,
                         price |-> LinePrice(item, t), isCanceled |-> FALSE]),
                    calc + LinePrice(item, t) * item.qty,
                    stale, t)

\* Math.abs(calculatedItemsPrice - itemsPrice) > tolerance; with itemsPrice
\* undefined the difference is NaN and the comparison is false
PriceMismatch(calc, claimed) ==
    claimed # Undef /\ Abs(calc - claimed) > Tolerance

Written(items) == {items[i].product : i \in 1..Len(items)}

\* the callback up to its first read: the validation of the body, then the snapshot
CreateBegin(p) ==
    /\ h[p].pc = "createBegin"
    /\ LET b == h[p].body
           fail(err) == h' = [h EXCEPT ![p] = Responded(@, CreateStatus(err), err)]
       IN IF b.orderItems = <<>> THEN fail("EmptyOrder")
          ELSE IF ~AddressComplete(b.shippingAddress) THEN fail("InvalidShippingAddress")
          ELSE IF b.paymentMethod = "" THEN fail("InvalidPaymentMethod")
          ELSE h' = [h EXCEPT ![p] =
                    [@ EXCEPT !.pc = "createBody",
                              !.view = [stock |-> stock, orders |-> orders],
                              !.staleP = {}, !.staleO = {}]]
    /\ UNCHANGED <<stock, orders, nreq, outbox>>

CreateRun(p) ==
    CreateItems(h[p].body.orderItems, 1, h[p].view.stock, <<>>, 0, h[p].staleP, h[p].t)

\* the rest of the callback and the commit
CreateFinish(p) ==
    /\ h[p].pc = "createBody"
    /\ LET r == CreateRun(p)
           b == h[p].body
           snap == h[p].view.stock
       IN CASE r.kind = "throw" ->
                /\ h' = [h EXCEPT ![p] = Responded(@, CreateStatus(r.err), r.err)]
                /\ stock' = Rollback(stock, snap, r.stock)
                /\ UNCHANGED orders
            [] r.kind = "conflict" ->
                /\ h' = [h EXCEPT ![p] = Retry(@, "createBegin")]
                /\ stock' = Rollback(stock, snap, r.stock)
                /\ UNCHANGED orders
            [] r.kind = "ok" /\ PriceMismatch(r.calc, b.itemsPrice) ->
                /\ h' = [h EXCEPT ![p] = Responded(@, CreateStatus("PriceMismatch"), "PriceMismatch")]
                /\ stock' = Rollback(stock, snap, r.stock)
                /\ UNCHANGED orders
            [] OTHER ->
                /\ orders' = Append(orders, NewOrder(h[p].user, r.items, b, r.calc, h[p].t))
                /\ stock' = Commit(stock, snap, r.stock)
                /\ h' = AfterWrite(p, Sending(h[p], "createMail"), Written(r.items), {})
    /\ UNCHANGED <<nreq, outbox>>

\* the confirmation email, awaited, and res.status(201)
CreateMail(p) ==
    /\ AwaitMail(p, "createMail", 201)
    /\ UNCHANGED <<stock, orders, nreq, outbox>>

\* order.save({ session }) rejects: the transaction aborts
CreateSaveFails(p) ==
    /\ h[p].pc = "createBody"
    /\ LET r == CreateRun(p)
       IN /\ r.kind = "ok"
          /\ ~PriceMismatch(r.calc, h[p].body.itemsPrice)
    /\ h' = [h EXCEPT ![p] = Responded(@, CreateStatus("SaveFailed"), "SaveFailed")]
    /\ stock' = Rollback(stock, h[p].view.stock, CreateRun(p).stock)
    /\ UNCHANGED <<orders, nreq, outbox>>

\* ------------------------------------------------------------ cancelOrder

\* a check that lets every authenticated user through
AnyoneMay(orderUser, currentUser) == TRUE

isOwnerOrAdmin(orderUser, currentUser) ==
    orderUser = currentUser \/ IsAdmin(currentUser)

ReqCancelOrder(p) ==
    /\ CanArrive(p)
    /\ \E u \in Users : \E id \in OrderIds \cup {NoSuchOrder} :
        Arrive(p, "cancelOrder", "cancelBegin", u, id, "A", NoBody, NoPay)

\* the checks without the test of order.isDelivered
CancelCheckNoDelivered(os, id, user) ==
    IF id \notin DOMAIN os THEN "NotFound"
    ELSE IF ~(os[id].user = user \/ IsAdmin(user)) THEN "NotAuthorized"
    ELSE IF os[id].isCanceled THEN "AlreadyCanceled"
    ELSE ""

\* what the callback throws after Order.findById, "" when it goes on
CancelCheck(os, id, user) ==
    IF id \notin DOMAIN os THEN "NotFound"
    ELSE IF ~isOwnerOrAdmin(os[id].user, user) THEN "NotAuthorized"
    ELSE IF os[id].isCanceled THEN "AlreadyCanceled"
    ELSE IF os[id].isDelivered THEN "CannotCancelDelivered"
    ELSE ""

\* err.statusCode || 500: 'Order not found' is thrown without a statusCode
CancelStatus(err) ==
    CASE err = "NotAuthorized" -> 403
      [] err \in {"AlreadyCanceled", "CannotCancelDelivered", "CannotModifyDelivered"} -> 400
      [] err = "ItemNotFound" -> 404
      [] OTHER -> 500

\* the callback up to the checks on the order it read
CancelBegin(p) ==
    /\ h[p].pc = "cancelBegin"
    /\ LET err == CancelCheck(orders, h[p].id, h[p].user)
       IN IF err # ""
          THEN h' = [h EXCEPT ![p] = Responded(@, CancelStatus(err), err)]
          ELSE h' = [h EXCEPT ![p] =
                    [@ EXCEPT !.pc = "cancelBody",
                              !.view = [stock |-> stock, orders |-> orders],
                              !.staleP = {}, !.staleO = {}]]
    /\ UNCHANGED <<stock, orders, nreq, outbox>>

\* the loop without its test of item.isCanceled
RECURSIVE RestoreEveryItem(_, _, _, _, _)
RestoreEveryItem(items, i, st, written, stale) ==
    IF i > Len(items)
    THEN [kind |-> "ok", stock |-> st, written |-> written]
    ELSE IF Conflict(items[i].product, stale)
    THEN [kind |-> "conflict", stock |-> st, written |-> written]
    ELSE RestoreEveryItem(items, i + 1,
            [st EXCEPT ![items[i].product] = @ + items[i].qty],
            written \cup {items[i].product}, stale)

\* The loop over order.orderItems, run against the transaction's view st: every
\* item not canceled gives its quantity back; a write conflict ends the loop.
RECURSIVE RestoreItems(_, _, _, _, _)
RestoreItems(items, i, st, written, stale) ==
    IF i > Len(items)
    THEN [kind |-> "ok", stock |-> st, written |-> written]
    ELSE LET item == items[i]
         IN IF item.isCanceled
            THEN RestoreItems(items, i + 1, st, written, stale)
            ELSE IF Conflict(item.product, stale)
            THEN [kind |-> "conflict", stock |-> st, written |-> written]
            ELSE RestoreItems(items, i + 1,
                    [st EXCEPT ![item.product] = @ + item.qty],
                    written \cup {item.product}, stale)

\* the order document cancelOrder saves
CanceledOrder(o, user, t) ==
    [o EXCEPT !.isCanceled = TRUE, !.canceledAt = t,
              !.statusHistory = Append(@, HistoryEntry("Canceled", user, t))]

\* the restoring loop, order.save({ session }) and the commit
CancelFinish(p) ==
    /\ h[p].pc = "cancelBody"
    /\ LET id == h[p].id
           o == h[p].view.orders[id]
           r == RestoreItems(o.orderItems, 1, h[p].view.stock, {}, h[p].staleP)
       IN IF r.kind = "conflict" \/ Conflict(id, h[p].staleO)
          THEN /\ h' = [h EXCEPT ![p] = Retry(@, "cancelBegin")]
               /\ stock' = Rollback(stock, h[p].view.stock, r.stock)
               /\ UNCHANGED <<orders, outbox>>
          ELSE /\ stock' = Commit(stock, h[p].view.stock, r.stock)
               /\ orders' = [orders EXCEPT ![id] = CanceledOrder(o, h[p].user, h[p].t)]
               /\ h' = AfterWrite(p, Responded(h[p], 200, ""), r.written, {id})
               /\ outbox' = Dispatch(outbox, "Order Canceled", id, h[p].t)
    /\ UNCHANGED nreq

\* the callback ran to its end, setImmediate included, and the commit fails:
\* withTransaction runs the callback again, or gives up and throws
CancelCommitFails(p) ==
    /\ h[p].pc = "cancelBody"
    /\ h[p].faults < MaxCommitFailures
    /\ LET id == h[p].id
           r == RestoreItems(h[p].view.orders[id].orderItems, 1, h[p].view.stock, {}, h[p].staleP)
       IN /\ r.kind = "ok" /\ ~Conflict(id, h[p].staleO)
          /\ stock' = Rollback(stock, h[p].view.stock, r.stock)
          /\ outbox' = Dispatch(outbox, "Order Canceled", id, h[p].t)
          /\ \/ h' = [h EXCEPT ![p] = Retry([@ EXCEPT !.faults = @ + 1], "cancelBegin")]
             \/ h' = [h EXCEPT ![p] =
                        Responded([@ EXCEPT !.faults = @ + 1],
                                  CancelStatus("CommitFailed"), "CommitFailed")]
    /\ UNCHANGED <<orders, nreq>>

\* Product.findByIdAndUpdate rejects at the item after the first n, or, with
\* every item done, order.save({ session }) rejects: the transaction aborts
CancelFails(p) ==
    /\ h[p].pc = "cancelBody"
    /\ LET items == h[p].view.orders[h[p].id].orderItems
           snap == h[p].view.stock
       IN \E n \in 0..Len(items) :
            LET r == RestoreItems(SubSeq(items, 1, n), 1, snap, {}, h[p].staleP)
                err == IF n = Len(items) THEN "SaveFailed" ELSE "RestoreFailed"
            IN /\ r.kind = "ok"
               /\ n < Len(items) => ~items[n + 1].isCanceled
               /\ h' = [h EXCEPT ![p] = Responded(@, CancelStatus(err), err)]
               /\ stock' = Rollback(stock, snap, r.stock)
    /\ UNCHANGED <<orders, nreq, outbox>>

\* ------------------------------------------------------------ cancelOrderItem

ReqCancelOrderItem(p) ==
    /\ CanArrive(p)
    /\ \E u \in Users : \E id \in OrderIds \cup {NoSuchOrder} : \E pid \in Products :
        Arrive(p, "cancelOrderItem", "itemBegin", u, id, pid, NoBody, NoPay)

\* order.orderItems.find(...): the index of the first item of the product that
\* is not canceled, 0 when there is none
\* the search without its test of i.isCanceled
RECURSIVE FindAnyItem(_, _, _)
FindAnyItem(items, pid, i) ==
    IF i > Len(items) THEN 0
    ELSE IF items[i].product = pid THEN i
    ELSE FindAnyItem(items, pid, i + 1)

RECURSIVE FindItem(_, _, _)
FindItem(items, pid, i) ==
    IF i > Len(items) THEN 0
    ELSE IF items[i].product = pid /\ ~items[i].isCanceled THEN i
    ELSE FindItem(items, pid, i + 1)

\* what the callback throws after Order.findById, "" when it goes on
ItemCheck(os, id, pid, user) ==
    IF id \notin DOMAIN os THEN "NotFound"
    ELSE IF ~isOwnerOrAdmin(os[id].user, user) THEN "NotAuthorized"
    ELSE IF os[id].isDelivered THEN "CannotModifyDelivered"
    ELSE IF FindItem(os[id].orderItems, pid, 1) = 0 THEN "ItemNotFound"
    ELSE ""

ItemBegin(p) ==
    /\ h[p].pc = "itemBegin"
    /\ LET err == ItemCheck(orders, h[p].id, h[p].pid, h[p].user)
       IN IF err # ""
          THEN h' = [h EXCEPT ![p] = Responded(@, CancelStatus(err), err)]
          ELSE h' = [h EXCEPT ![p] =
                    [@ EXCEPT !.pc = "itemBody",
                              !.view = [stock |-> stock, orders |-> orders],
                              !.staleP = {}, !.staleO = {}]]
    /\ UNCHANGED <<stock, orders, nreq, outbox>>

\* the save without the line that recomputes order.totalPrice
ItemCanceledKeepsTotal(o, i) ==
    LET item == o.orderItems[i]
    IN [o EXCEPT !.orderItems[i].isCanceled = TRUE,
                 !.itemsPrice = @ - item.price * item.qty]

\* ItemCanceledOrder leaving itemsPrice and totalPrice as they were
ItemCanceledKeepsItemsPrice(o, i) == [o EXCEPT !.orderItems[i].isCanceled = TRUE]

\* the order document cancelOrderItem saves after canceling item i
ItemCanceledOrder(o, i) ==
    LET item == o.orderItems[i]
        rest == o.itemsPrice - item.price * item.qty
    IN [o EXCEPT !.orderItems[i].isCanceled = TRUE,
                 !.itemsPrice = rest,
                 !.totalPrice = rest + o.shippingPrice + o.taxPrice]

\* the stock update, order.save({ session }) and the commit
ItemFinish(p) ==
    /\ h[p].pc = "itemBody"
    /\ LET id == h[p].id
           pid == h[p].pid
           o == h[p].view.orders[id]
           i == FindItem(o.orderItems, pid, 1)
           snap == h[p].view.stock
           mine == [snap EXCEPT ![pid] = @ + o.orderItems[i].qty]
       IN IF Conflict(pid, h[p].staleP)
          THEN /\ h' = [h EXCEPT ![p] = Retry(@, "itemBegin")]
               /\ UNCHANGED <<stock, orders, outbox>>
          ELSE IF Conflict(id, h[p].staleO)
          THEN /\ h' = [h EXCEPT ![p] = Retry(@, "itemBegin")]
               /\ stock' = Rollback(stock, snap, mine)
               /\ UNCHANGED <<orders, outbox>>
          ELSE /\ stock' = Commit(stock, snap, mine)
               /\ orders' = [orders EXCEPT ![id] = ItemCanceledOrder(o, i)]
               /\ h' = AfterWrite(p, Responded(h[p], 200, ""), {pid}, {id})
               /\ outbox' = Dispatch(outbox, "Item Canceled", id, h[p].t)
    /\ UNCHANGED nreq

\* the callback ran to its end, setImmediate included, and the commit fails
ItemCommitFails(p) ==
    /\ h[p].pc = "itemBody"
    /\ h[p].faults < MaxCommitFailures
    /\ LET id == h[p].id
           pid == h[p].pid
           o == h[p].view.orders[id]
           snap == h[p].view.stock
           mine == [snap EXCEPT ![pid] = @ + o.orderItems[FindItem(o.orderItems, pid, 1)].qty]
       IN /\ ~Conflict(pid, h[p].staleP) /\ ~Conflict(id, h[p].staleO)
          /\ stock' = Rollback(stock, snap, mine)
          /\ outbox' = Dispatch(outbox, "Item Canceled", id, h[p].t)
          /\ \/ h' = [h EXCEPT ![p] = Retry([@ EXCEPT !.faults = @ + 1], "itemBegin")]
             \/ h' = [h EXCEPT ![p] =
                        Responded([@ EXCEPT !.faults = @ + 1],
                                  CancelStatus("CommitFailed"), "CommitFailed")]
    /\ UNCHANGED <<orders, nreq>>

\* ------------------------------------------------------------ markOrderAsPaid

ReqMarkOrderAsPaid(p) ==
    /\ CanArrive(p)
    /\ \E u \in Users : \E id \in OrderIds \cup {NoSuchOrder} : \E b \in PayBodies(nreq + 1) :
        Arrive(p, "markOrderAsPaid", "payLoad", u, id, "A", NoBody, b)

\* the early returns without the test of order.isPaid
PayCheckNoPaid(os, id, user, pay) ==
    IF pay.id = NoPayId \/ pay.status = "" THEN "PaymentDetailsRequired"
    ELSE IF id \notin DOMAIN os THEN "NotFound"
    ELSE IF ~isOwnerOrAdmin(os[id].user, user) THEN "NotAuthorized"
    ELSE ""

\* the early returns of markOrderAsPaid, "" when it goes on to save
PayCheck(os, id, user, pay) ==
    IF pay.id = NoPayId \/ pay.status = "" THEN "PaymentDetailsRequired"
    ELSE IF id \notin DOMAIN os THEN "NotFound"
    ELSE IF os[id].isPaid THEN "AlreadyPaid"
    ELSE IF ~isOwnerOrAdmin(os[id].user, user) THEN "NotAuthorized"
    ELSE ""

\* the status of an early return of a handler that is not in a transaction
EarlyStatus(err) ==
    CASE err = "NotFound" -> 404
      [] err = "NotAuthorized" -> 403
      [] OTHER -> 400

\* the check of the body, Order.findById and the checks on the order read
PayLoad(p) ==
    /\ h[p].pc = "payLoad"
    /\ LET err == PayCheck(orders, h[p].id, h[p].user, h[p].pay)
       IN IF err # ""
          THEN h' = [h EXCEPT ![p] = Responded(@, EarlyStatus(err), err)]
          ELSE h' = [h EXCEPT ![p] = [@ EXCEPT !.pc = "paySave"]]
    /\ UNCHANGED <<stock, orders, nreq, outbox>>

\* the paths markOrderAsPaid modified, applied to the order as it is stored now
PaidOrder(o, pay, user, t) ==
    [o EXCEPT !.isPaid = TRUE, !.paidAt = t,
              !.paymentResult = [id |-> pay.id, status |-> pay.status,
                                 update_time |-> t, email_address |-> o.user],
              !.statusHistory = Append(@, HistoryEntry("Payment Confirmed", user, t))]

\* order.save()
PaySave(p) ==
    /\ h[p].pc = "paySave"
    /\ orders' = [orders EXCEPT ![h[p].id] = PaidOrder(@, h[p].pay, h[p].user, h[p].t)]
    /\ h' = AfterWrite(p, Sending(h[p], "payMail"), {}, {h[p].id})
    /\ UNCHANGED <<stock, nreq, outbox>>

\* the payment email, awaited, and res.json
PayMail(p) ==
    /\ AwaitMail(p, "payMail", 200)
    /\ UNCHANGED <<stock, orders, nreq, outbox>>

\* ------------------------------------------------------------ markOrderAsDelivered

\* the route lets only an admin through
ReqMarkOrderAsDelivered(p) ==
    /\ CanArrive(p)
    /\ \E u \in {u \in Users : IsAdmin(u)} : \E id \in OrderIds \cup {NoSuchOrder} :
        Arrive(p, "markOrderAsDelivered", "deliverLoad", u, id, "A", NoBody, NoPay)

\* the early returns without the test of order.isPaid
DeliverCheckNoPaid(os, id) ==
    IF id \notin DOMAIN os THEN "NotFound"
    ELSE IF os[id].isDelivered THEN "AlreadyDelivered"
    ELSE ""

\* the early returns of markOrderAsDelivered, "" when it goes on to save
DeliverCheck(os, id) ==
    IF id \notin DOMAIN os THEN "NotFound"
    ELSE IF ~os[id].isPaid THEN "CannotDeliverUnpaid"
    ELSE IF os[id].isDelivered THEN "AlreadyDelivered"
    ELSE ""

DeliverLoad(p) ==
    /\ h[p].pc = "deliverLoad"
    /\ LET err == DeliverCheck(orders, h[p].id)
       IN IF err # ""
          THEN h' = [h EXCEPT ![p] = Responded(@, EarlyStatus(err), err)]
          ELSE h' = [h EXCEPT ![p] = [@ EXCEPT !.pc = "deliverSave"]]
    /\ UNCHANGED <<stock, orders, nreq, outbox>>

\* the paths markOrderAsDelivered modified, applied to the order as it is stored now
DeliveredOrder(o, user, t) ==
    [o EXCEPT !.isDelivered = TRUE, !.deliveredAt = t,
              !.statusHistory = Append(@, HistoryEntry("Delivered", user, t))]

\* order.save()
DeliverSave(p) ==
    /\ h[p].pc = "deliverSave"
    /\ orders' = [orders EXCEPT ![h[p].id] = DeliveredOrder(@, h[p].user, h[p].t)]
    /\ h' = AfterWrite(p, Sending(h[p], "deliverMail"), {}, {h[p].id})
    /\ UNCHANGED <<stock, nreq, outbox>>

\* the delivery email, awaited, and res.json
DeliverMail(p) ==
    /\ AwaitMail(p, "deliverMail", 200)
    /\ UNCHANGED <<stock, orders, nreq, outbox>>

\* ------------------------------------------------------------ reorder

ReqReorder(p) ==
    /\ CanArrive(p)
    /\ \E u \in Users : \E id \in OrderIds \cup {NoSuchOrder} :
        Arrive(p, "reorder", "reorderLoad", u, id, "A", NoBody, NoPay)

\* the early returns of reorder after Order.findById, "" when it goes on
ReorderCheck(os, id, user) ==
    IF id \notin DOMAIN os THEN "NotFound"
    ELSE IF os[id].user # user THEN "NotAuthorized"
    ELSE ""

\* Order.findById: the old order's items and the fields the new order copies
ReorderLoad(p) ==
    /\ h[p].pc = "reorderLoad"
    /\ LET err == ReorderCheck(orders, h[p].id, h[p].user)
           o == orders[h[p].id]
       IN IF err # ""
          THEN h' = [h EXCEPT ![p] = Responded(@, EarlyStatus(err), err)]
          ELSE h' = [h EXCEPT ![p] =
                    [@ EXCEPT !.pc = "reorderPopulate",
                              !.items = o.orderItems,
                              !.body = MkBody(<<>>, Undef, o.shippingPrice, Undef,
                                              o.shippingAddress, o.paymentMethod)]]
    /\ UNCHANGED <<stock, orders, nreq, outbox>>

\* SelectItems taking an item one unit short of its quantity as in stock
RECURSIVE SelectItemsOneShort(_, _, _)
SelectItemsOneShort(items, st, wantAvailable) ==
    IF items = <<>> THEN <<>>
    ELSE LET item == Head(items)
             rest == SelectItemsOneShort(Tail(items), st, wantAvailable)
         IN IF ~item.isCanceled /\ ((st[item.product] + 1 >= item.qty) = wantAvailable)
            THEN <<item>> \o rest
            ELSE rest

\* the items of the old order that are not canceled and that keep(item) holds of
RECURSIVE SelectItems(_, _, _)
SelectItems(items, st, wantAvailable) ==
    IF items = <<>> THEN <<>>
    ELSE LET item == Head(items)
             rest == SelectItems(Tail(items), st, wantAvailable)
         IN IF ~item.isCanceled /\ ((st[item.product] >= item.qty) = wantAvailable)
            THEN <<item>> \o rest
            ELSE rest

availableItems(items, st, t) ==
    LET sel == SelectItems(items, st, TRUE)
    IN [i \in 1..Len(sel) |->
            PricedLine(sel[i].product, sel[i].qty, currentPrice(sel[i].product, t))]

unavailableItems(items, st) ==
    LET sel == SelectItems(items, st, FALSE)
    IN [i \in 1..Len(sel) |->
            [product |-> sel[i].product, requestedQty |-> sel[i].qty,
             availableQty |-> st[sel[i].product]]]

\* populate('orderItems.product'), the availability loop, and either the 400 or
\* the body handed to createOrder
ReorderPopulate(p) ==
    /\ h[p].pc = "reorderPopulate"
    /\ LET avail == availableItems(h[p].items, stock, h[p].t)
           unavail == unavailableItems(h[p].items, stock)
           itemsPrice == Expected(avail, h[p].t)
       IN IF avail = <<>>
          THEN h' = [h EXCEPT ![p] =
                    Responded([@ EXCEPT !.unavailable = unavail, !.reported = unavail],
                              400, "NothingToReorder")]
          ELSE h' = [h EXCEPT ![p] =
                    [@ EXCEPT !.pc = "createBegin",
                              !.unavailable = unavail,
                              !.body = [@ EXCEPT !.orderItems = avail,
                                                 !.itemsPrice = itemsPrice,
                                                 !.taxPrice = itemsPrice \div 10]]]
    /\ UNCHANGED <<stock, orders, nreq, outbox>>

\* ------------------------------------------------------------ updateOrderStatus

\* the route lets only an admin through
ReqUpdateOrderStatus(p) ==
    /\ CanArrive(p)
    /\ \E u \in {u \in Users : IsAdmin(u)} : \E id \in OrderIds \cup {NoSuchOrder} :
       \E st \in StatusBodies :
        /\ nreq' = nreq + 1
        /\ h' = [h EXCEPT ![p] =
                [Idle EXCEPT !.op = "updateOrderStatus", !.pc = "statusLoad",
                             !.t = nreq + 1, !.user = u, !.id = id,
                             !.newStatus = st, !.stockAtArrival = stock]]
    /\ UNCHANGED <<stock, orders, outbox>>

validStatuses == {"Pending", "Processing", "Shipped", "Delivered", "Canceled"}

\* the early returns of updateOrderStatus, "" when it goes on to save
StatusCheck(os, id, st) ==
    IF st \notin validStatuses THEN "InvalidStatus"
    ELSE IF id \notin DOMAIN os THEN "NotFound"
    ELSE ""

StatusLoad(p) ==
    /\ h[p].pc = "statusLoad"
    /\ LET err == StatusCheck(orders, h[p].id, h[p].newStatus)
       IN IF err # ""
          THEN h' = [h EXCEPT ![p] = Responded(@, EarlyStatus(err), err)]
          ELSE h' = [h EXCEPT ![p] = [@ EXCEPT !.pc = "statusSave"]]
    /\ UNCHANGED <<stock, orders, nreq, outbox>>

\* StatusOrder setting the delivered flag along with the status "Delivered"
StatusOrderSetsFlag(o, st, user, t) ==
    [o EXCEPT !.customStatus = st,
              !.isDelivered = IF st = "Delivered" THEN TRUE ELSE @,
              !.statusHistory = Append(@, HistoryEntry(st, user, t))]

\* the paths updateOrderStatus modified, applied to the order as it is stored now
StatusOrder(o, st, user, t) ==
    [o EXCEPT !.customStatus = st,
              !.statusHistory = Append(@, HistoryEntry(st, user, t))]

\* order.save()
StatusSave(p) ==
    /\ h[p].pc = "statusSave"
    /\ orders' = [orders EXCEPT ![h[p].id] = StatusOrder(@, h[p].newStatus, h[p].user, h[p].t)]
    /\ h' = AfterWrite(p, Responded(h[p], 200, ""), {}, {h[p].id})
    /\ UNCHANGED <<stock, nreq, outbox>>

\* ------------------------------------------------------------ bulkUpdateOrders

\* the route lets only an admin through
ReqBulkUpdateOrders(p) ==
    /\ CanArrive(p)
    /\ \E u \in {u \in Users : IsAdmin(u)} : \E data \in UpdateDatas :
       \E ids \in {{}, OrderIds} \cup {{id} : id \in OrderIds \cup {NoSuchOrder}} :
        /\ nreq' = nreq + 1
        /\ h' = [h EXCEPT ![p] =
                [Idle EXCEPT !.op = "bulkUpdateOrders", !.pc = "bulkBegin",
                             !.t = nreq + 1, !.user = u, !.ids = ids,
                             !.update = data, !.stockAtArrival = stock]]
    /\ UNCHANGED <<stock, orders, outbox>>

allowedFields == {"customStatus", "paymentMethod", "isDelivered", "isPaid"}

\* updateFields: the keys of updateData that are allowed
UpdateFields(data) == data.keys \cap allowedFields

\* the early returns of bulkUpdateOrders, "" when it goes on to updateMany
BulkCheck(ids, data) ==
    IF ids = {} THEN "OrderIdsRequired"
    ELSE IF data.keys = {} THEN "UpdateDataRequired"
    ELSE IF UpdateFields(data) = {} THEN "NoAllowedField"
    ELSE ""

\* `Bulk Update: ${Object.keys(updateFields).join(', ')}`
BulkStatus(keys) ==
    CASE keys = {"isDelivered"} -> "Bulk Update: isDelivered"
      [] keys = {"isPaid"} -> "Bulk Update: isPaid"
      [] keys = {"customStatus"} -> "Bulk Update: customStatus"
      [] keys = {"paymentMethod"} -> "Bulk Update: paymentMethod"
      [] OTHER -> "Bulk Update"

\* $set: updateFields and $push of the statusHistory entry, on one order
BulkUpdated(o, data, user, t) ==
    LET keys == UpdateFields(data)
    IN [o EXCEPT
         !.customStatus = IF "customStatus" \in keys THEN data.customStatus ELSE @,
         !.isDelivered = IF "isDelivered" \in keys THEN data.isDelivered ELSE @,
         !.isPaid = IF "isPaid" \in keys THEN data.isPaid ELSE @,
         !.statusHistory = Append(@, HistoryEntry(BulkStatus(keys), user, t))]

\* the checks of the body; with no order matching, updateMany modifies nothing
BulkBegin(p) ==
    /\ h[p].pc = "bulkBegin"
    /\ LET err == BulkCheck(h[p].ids, h[p].update)
       IN IF err # ""
          THEN h' = [h EXCEPT ![p] = Responded(@, EarlyStatus(err), err)]
          ELSE IF h[p].ids \cap OrderIds = {}
          THEN h' = [h EXCEPT ![p] = Responded(@, 200, "")]
          ELSE h' = [h EXCEPT ![p] = [@ EXCEPT !.pc = "bulkBody"]]
    /\ UNCHANGED <<stock, orders, nreq, outbox>>

\* Order.updateMany updates the matching orders one document at a time
BulkStep(p) ==
    /\ h[p].pc = "bulkBody"
    /\ \E k \in h[p].ids \cap OrderIds :
        LET rest == (h[p].ids \cap OrderIds) \ {k}
            rec == IF rest = {} THEN Responded(h[p], 200, "")
                   ELSE [h[p] EXCEPT !.ids = rest]
        IN /\ orders' = [orders EXCEPT ![k] = BulkUpdated(@, h[p].update, h[p].user, h[p].t)]
           /\ h' = AfterWrite(p, rec, {}, {k})
    /\ UNCHANGED <<stock, nreq, outbox>>

\* ------------------------------------------------------------ updateShippingAddress

NewAddress == [address |-> "lane", city |-> "city"]

ReqUpdateShippingAddress(p) ==
    /\ CanArrive(p)
    /\ \E u \in Users : \E id \in OrderIds \cup {NoSuchOrder} : \E a \in {NewAddress, NoCity} :
        Arrive(p, "updateShippingAddress", "addressLoad", u, id, "A",
               [NoBody EXCEPT !.shippingAddress = a], NoPay)

\* the early returns of updateShippingAddress, "" when it goes on to save
AddressCheck(os, id, user, a) ==
    IF ~AddressComplete(a) THEN "InvalidShippingAddress"
    ELSE IF id \notin DOMAIN os THEN "NotFound"
    ELSE IF ~isOwnerOrAdmin(os[id].user, user) THEN "NotAuthorized"
    ELSE IF os[id].isDelivered THEN "AddressAfterDelivery"
    ELSE ""

AddressLoad(p) ==
    /\ h[p].pc = "addressLoad"
    /\ LET err == AddressCheck(orders, h[p].id, h[p].user, h[p].body.shippingAddress)
       IN IF err # ""
          THEN h' = [h EXCEPT ![p] = Responded(@, EarlyStatus(err), err)]
          ELSE h' = [h EXCEPT ![p] = [@ EXCEPT !.pc = "addressSave"]]
    /\ UNCHANGED <<stock, orders, nreq, outbox>>

\* the paths updateShippingAddress modified, applied to the order as it is stored now
AddressedOrder(o, a, user, t) ==
    [o EXCEPT !.shippingAddress = a,
              !.statusHistory = Append(@, HistoryEntry("Shipping Address Updated", user, t))]

\* order.save()
AddressSave(p) ==
    /\ h[p].pc = "addressSave"
    /\ orders' = [orders EXCEPT ![h[p].id] =
            AddressedOrder(@, h[p].body.shippingAddress, h[p].user, h[p].t)]
    /\ h' = AfterWrite(p, Responded(h[p], 200, ""), {}, {h[p].id})
    /\ UNCHANGED <<stock, nreq, outbox>>

\* ------------------------------------------------------------ changePaymentMethod

validMethods == {"PayPal", "Stripe", "COD", "Credit Card"}

ReqChangePaymentMethod(p) ==
    /\ CanArrive(p)
    /\ \E u \in Users : \E id \in OrderIds \cup {NoSuchOrder} : \E pm \in {"Stripe", "Bitcoin"} :
        Arrive(p, "changePaymentMethod", "methodLoad", u, id, "A",
               [NoBody EXCEPT !.paymentMethod = pm], NoPay)

\* the early returns of changePaymentMethod, "" when it goes on to save
MethodCheck(os, id, user, pm) ==
    IF pm \notin validMethods THEN "InvalidPaymentMethod"
    ELSE IF id \notin DOMAIN os THEN "NotFound"
    ELSE IF ~isOwnerOrAdmin(os[id].user, user) THEN "NotAuthorized"
    ELSE IF os[id].isPaid THEN "MethodAfterPayment"
    ELSE ""

MethodLoad(p) ==
    /\ h[p].pc = "methodLoad"
    /\ LET err == MethodCheck(orders, h[p].id, h[p].user, h[p].body.paymentMethod)
       IN IF err # ""
          THEN h' = [h EXCEPT ![p] = Responded(@, EarlyStatus(err), err)]
          ELSE h' = [h EXCEPT ![p] = [@ EXCEPT !.pc = "methodSave"]]
    /\ UNCHANGED <<stock, orders, nreq, outbox>>

\* `Payment Method Changed to ${paymentMethod}`
MethodStatus(pm) ==
    CASE pm = "Stripe" -> "Payment Method Changed to Stripe"
      [] pm = "PayPal" -> "Payment Method Changed to PayPal"
      [] pm = "COD" -> "Payment Method Changed to COD"
      [] OTHER -> "Payment Method Changed to Credit Card"

\* the paths changePaymentMethod modified, applied to the order as it is stored now
MethodOrder(o, pm, user, t) ==
    [o EXCEPT !.paymentMethod = pm,
              !.statusHistory = Append(@, HistoryEntry(MethodStatus(pm), user, t))]

\* order.save()
MethodSave(p) ==
    /\ h[p].pc = "methodSave"
    /\ orders' = [orders EXCEPT ![h[p].id] =
            MethodOrder(@, h[p].body.paymentMethod, h[p].user, h[p].t)]
    /\ h' = AfterWrite(p, Responded(h[p], 200, ""), {}, {h[p].id})
    /\ UNCHANGED <<stock, nreq, outbox>>

\* ------------------------------------------------------------ getOrderStatusTimeline

ReqGetOrderStatusTimeline(p) ==
    /\ CanArrive(p)
    /\ \E u \in Users : \E id \in OrderIds \cup {NoSuchOrder} :
        Arrive(p, "getOrderStatusTimeline", "timelineRun", u, id, "A", NoBody, NoPay)

Event(status, date, automated) == [status |-> status, date |-> date, automated |-> automated]

\* the array before the sort: the milestones of the flags that are set, then
\* the statusHistory entries
TimelineEvents(o) ==
    <<Event("Order Placed", o.createdAt, TRUE)>>
    \o (IF o.isPaid THEN <<Event("Payment Confirmed", o.paidAt, TRUE)>> ELSE <<>>)
    \o (IF o.isDelivered THEN <<Event("Delivered", o.deliveredAt, TRUE)>> ELSE <<>>)
    \o (IF o.isCanceled THEN <<Event("Canceled", o.canceledAt, TRUE)>> ELSE <<>>)
    \o [i \in 1..Len(o.statusHistory) |->
            Event(o.statusHistory[i].status, o.statusHistory[i].changedAt, FALSE)]

\* new Date(a.date) - new Date(b.date) < 0
Earlier(a, b) == a.date < b.date

\* e put into the sorted events, behind every event it is not earlier than
RECURSIVE InsertEvent(_, _)
InsertEvent(sorted, e) ==
    IF sorted = <<>> THEN <<e>>
    ELSE IF Earlier(e, sorted[Len(sorted)])
         THEN Append(InsertEvent(SubSeq(sorted, 1, Len(sorted) - 1), e), sorted[Len(sorted)])
         ELSE Append(sorted, e)

\* a stable sort by date
RECURSIVE SortByDate(_)
SortByDate(events) ==
    IF events = <<>> THEN <<>>
    ELSE InsertEvent(SortByDate(SubSeq(events, 1, Len(events) - 1)), events[Len(events)])

\* .sort((a, b) => new Date(a.date) - new Date(b.date)): the arrays it may
\* leave. With every date set the comparator is consistent and the stable sort
\* is the result; a date that is not set makes the difference NaN, the
\* comparator inconsistent, and the order of the result implementation-defined.
Sorted(events) ==
    IF \A i \in DOMAIN events : events[i].date # NoDate
    THEN {SortByDate(events)}
    ELSE {[i \in DOMAIN events |-> events[f[i]]] : f \in Permutations(DOMAIN events)}

\* the early returns of getOrderStatusTimeline, "" when it goes on
TimelineCheck(os, id, user) ==
    IF id \notin DOMAIN os THEN "NotFound"
    ELSE IF ~isOwnerOrAdmin(os[id].user, user) THEN "NotAuthorized"
    ELSE ""

TimelineRun(p) ==
    /\ h[p].pc = "timelineRun"
    /\ LET err == TimelineCheck(orders, h[p].id, h[p].user)
       IN IF err # ""
          THEN h' = [h EXCEPT ![p] = Responded(@, EarlyStatus(err), err)]
          ELSE \E timeline \in Sorted(TimelineEvents(orders[h[p].id])) :
                h' = [h EXCEPT ![p] =
                        Responded([@ EXCEPT !.timeline = timeline], 200, "")]
    /\ UNCHANGED <<stock, orders, nreq, outbox>>

\* ------------------------------------------------------------ specification

Next ==
    \/ NotifySettles
    \/ \E p \in Procs :
        \/ ReqCreateOrder(p)
        \/ CreateBegin(p)
        \/ CreateFinish(p)
        \/ CreateMail(p)
        \/ CreateSaveFails(p)
        \/ ReqCancelOrder(p)
        \/ CancelBegin(p)
        \/ CancelFinish(p)
        \/ CancelFails(p)
        \/ CancelCommitFails(p)
        \/ ReqCancelOrderItem(p)
        \/ ItemBegin(p)
        \/ ItemFinish(p)
        \/ ItemCommitFails(p)
        \/ ReqMarkOrderAsPaid(p)
        \/ PayLoad(p)
        \/ PaySave(p)
        \/ PayMail(p)
        \/ ReqMarkOrderAsDelivered(p)
        \/ DeliverLoad(p)
        \/ DeliverSave(p)
        \/ DeliverMail(p)
        \/ ReqReorder(p)
        \/ ReorderLoad(p)
        \/ ReorderPopulate(p)
        \/ ReqUpdateOrderStatus(p)
        \/ StatusLoad(p)
        \/ StatusSave(p)
        \/ ReqBulkUpdateOrders(p)
        \/ BulkBegin(p)
        \/ BulkStep(p)
        \/ ReqUpdateShippingAddress(p)
        \/ AddressLoad(p)
        \/ AddressSave(p)
        \/ ReqChangePaymentMethod(p)
        \/ MethodLoad(p)
        \/ MethodSave(p)
        \/ ReqGetOrderStatusTimeline(p)
        \/ TimelineRun(p)

Spec == Init /\ [][Next]_vars

\* the steps the event loop takes for a handler whose request has arrived:
\* every database call returns and the code after it runs. The arrival of
\* requests and the settling of sendEmail are not among them.
Runs(p) ==
    \/ CreateBegin(p) \/ CreateFinish(p) \/ CreateSaveFails(p)
    \/ CancelBegin(p) \/ CancelFinish(p) \/ CancelFails(p) \/ CancelCommitFails(p)
    \/ ItemBegin(p) \/ ItemFinish(p) \/ ItemCommitFails(p)
    \/ PayLoad(p) \/ PaySave(p)
    \/ DeliverLoad(p) \/ DeliverSave(p)
    \/ ReorderLoad(p) \/ ReorderPopulate(p)
    \/ StatusLoad(p) \/ StatusSave(p)
    \/ BulkBegin(p) \/ BulkStep(p)
    \/ AddressLoad(p) \/ AddressSave(p)
    \/ MethodLoad(p) \/ MethodSave(p)
    \/ TimelineRun(p)

\* Spec with every handler that can take a step eventually taking one
FairSpec == Init /\ [][Next]_vars /\ \A p \in Procs : WF_vars(Runs(p))

\* ------------------------------------------------------------ claims

\* a finished createOrder of process p that asked, with a body createOrder
\* accepts, for one unit of product d when one unit was left
AsksLastUnit(p, d) ==
    /\ h[p].op = "createOrder" /\ h[p].pc = "done"
    /\ h[p].body.orderItems = <<Line(d, 1)>>
    /\ AddressComplete(h[p].body.shippingAddress)
    /\ h[p].body.paymentMethod # ""
    /\ ~PriceMismatch(Expected(h[p].body.orderItems, h[p].t), h[p].body.itemsPrice)
    /\ h[p].stockAtArrival[d] = 1

\* two answered requests of which each arrived before the other was answered
Concurrent(p, q) ==
    /\ h[p].pc = "done" /\ h[q].pc = "done"
    /\ h[p].t <= h[q].tEnd /\ h[q].t <= h[p].tEnd

\* C1: of two concurrent createOrder requests that each ask for the last unit
\* of a product, never both succeed; unless order.save itself failed, exactly
\* one succeeds and the other is refused with 400 for insufficient stock.
C1_LastUnit ==
    \A p, q \in Procs : \A d \in Products :
        (p # q /\ Concurrent(p, q) /\ AsksLastUnit(p, d) /\ AsksLastUnit(q, d)) =>
            /\ ~(h[p].status = 201 /\ h[q].status = 201)
            /\ (h[p].err # "SaveFailed" /\ h[q].err # "SaveFailed") =>
                    \E w \in {p, q} : \E l \in {p, q} \ {w} :
                        /\ h[w].status = 201
                        /\ h[l].status = 400 /\ h[l].err = "OutOfStock"

C1_Witness ==
    \E p, q \in Procs : \E d \in Products :
        /\ p # q /\ Concurrent(p, q) /\ AsksLastUnit(p, d) /\ AsksLastUnit(q, d)
        /\ h[p].status = 201
        /\ h[q].status = 400 /\ h[q].err = "OutOfStock"

\* C2: no product's countInStock is ever negative, whatever createOrder,
\* reorder, cancelOrder and cancelOrderItem requests run and interleave.
C2_StockNonNegative == \A d \in Products : stock[d] >= 0

C2_Witness ==
    \E d \in Products : \E p \in Procs :
        /\ stock[d] = 0
        /\ h[p].op \in {"createOrder", "reorder"} /\ h[p].pc = "done" /\ h[p].status = 201
        /\ \E i \in 1..Len(h[p].body.orderItems) : h[p].body.orderItems[i].product = d

\* C3: the step in which a createOrder ends without its 201 leaves every
\* countInStock and the Order collection as they were.
C3_FailedCreateChangesNothing ==
    [][\A p \in Procs :
        (h[p].pc \in {"createBegin", "createBody"} /\ h'[p].pc = "done" /\ h'[p].status # 201)
            => (stock' = stock /\ orders' = orders)]_vars

\* a createOrder refused for its second item, after its first item was in stock
C3_Witness ==
    \E p \in Procs :
        /\ h[p].op = "createOrder" /\ h[p].pc = "done"
        /\ h[p].err \in {"ProductNotFound", "OutOfStock", "SaveFailed"}
        /\ Len(h[p].body.orderItems) = 2
        /\ h[p].stockAtArrival[h[p].body.orderItems[1].product] >= h[p].body.orderItems[1].qty
        /\ h[p].err = "ProductNotFound"

\* the units of product d in the line items
QtyOf(items, d) ==
    SumSeq([i \in 1..Len(items) |-> IF items[i].product = d THEN items[i].qty ELSE 0])

\* the step in which process p answers a request that was at position pc
Answers(p, pc) == h[p].pc = pc /\ h'[p].pc = "done"

\* the step in which the createOrder of process p commits its order
Stores(p) == h[p].pc = "createBody" /\ h'[p].pc = "createMail"

\* C4: once cancelOrder has canceled an order, a cancelOrderItem on that order
\* does not increase any countInStock (its items were already given back).
C4_RestoredAtMostOnce ==
    [][\A p \in Procs :
        (Answers(p, "itemBody") /\ h[p].id \in OrderIds /\ orders[h[p].id].isCanceled)
            => \A d \in Products : stock'[d] <= stock[d]]_vars

\* the units of product d that the orders os still hold: those of the items
\* not canceled of the orders not canceled
Held(os, d) ==
    SumSeq([k \in 1..Len(os) |->
        IF os[k].isCanceled THEN 0
        ELSE SumSeq([i \in 1..Len(os[k].orderItems) |->
                IF os[k].orderItems[i].product = d /\ ~os[k].orderItems[i].isCanceled
                THEN os[k].orderItems[i].qty ELSE 0])])

\* every unit of every product is either in stock or held by an order
Conserved == \A d \in Products : stock[d] + Held(orders, d) = TotalStock[d]

\* a cancelOrderItem that acts on an order cancelOrder has canceled already
LateItemCancel ==
    \E p \in Procs : Answers(p, "itemBody") /\ h[p].id \in OrderIds /\ orders[h[p].id].isCanceled

\* C5: through createOrder, cancelOrder and cancelOrderItem on an order not yet
\* canceled, every unit stays either in stock or held by a live line item: an
\* order canceled as a whole, item by item, or by a mix of both holds nothing,
\* so each countInStock is back at its value from before the order's creation.
C5_CancelRestoresStock ==
    [][(Conserved /\ ~LateItemCancel) => Conserved']_vars

\* an order canceled by a mix: one item by cancelOrderItem, the rest by cancelOrder
C5_Witness ==
    /\ Len(orders) = 1
    /\ orders[1].isCanceled
    /\ \E i, j \in 1..Len(orders[1].orderItems) :
            orders[1].orderItems[i].isCanceled /\ ~orders[1].orderItems[j].isCanceled
    /\ \A d \in Products : stock[d] = TotalStock[d]

\* C6: the step in which createOrder answers 201 adds one order that is not
\* paid, not delivered, not canceled and "Pending", and takes from each product
\* exactly the quantity the request asked of it.
C6_CreateDecrementsExactly ==
    [][\A p \in Procs :
        Stores(p) =>
            /\ Len(orders') = Len(orders) + 1
            /\ LET o == orders'[Len(orders')]
               IN /\ ~o.isPaid /\ ~o.isDelivered /\ ~o.isCanceled
                  /\ o.customStatus = "Pending"
            /\ \A d \in Products :
                    stock'[d] = stock[d] - QtyOf(h[p].body.orderItems, d)]_vars

\* a created order that took two units of one product
C6_Witness ==
    \E p \in Procs :
        /\ h[p].op = "createOrder" /\ h[p].pc = "done" /\ h[p].status = 201
        /\ \E d \in Products : QtyOf(h[p].body.orderItems, d) = 2
        /\ orders[Len(orders)].createdAt = h[p].t

\* C7: every stored order has totalPrice = itemsPrice + shippingPrice +
\* taxPrice, after createOrder and after every cancelOrderItem.
C7_TotalIsSum ==
    \A k \in OrderIds :
        orders[k].totalPrice = orders[k].itemsPrice + orders[k].shippingPrice + orders[k].taxPrice

\* an order with shipping and tax of which cancelOrderItem canceled an item
C7_Witness ==
    \E k \in OrderIds : \E i \in 1..Len(orders[k].orderItems) :
        /\ orders[k].orderItems[i].isCanceled
        /\ orders[k].shippingPrice > 0 /\ orders[k].taxPrice > 0

\* the step in which process p leaves position pc
Leaves(p, pc) == h[p].pc = pc /\ h'[p].pc # pc

\* C8: a markOrderAsPaid that reads an order already paid answers 400, with
\* "already paid" when its body carries the payment details, and leaves the
\* order (paidAt, paymentResult, statusHistory) and everything else as it was.
C8_SecondPaymentRefused ==
    [][\A p \in Procs :
        (Leaves(p, "payLoad") /\ h[p].id \in OrderIds /\ orders[h[p].id].isPaid) =>
            /\ h'[p].pc = "done" /\ h'[p].status = 400
            /\ (h[p].pay.id # NoPayId /\ h[p].pay.status # "") => h'[p].err = "AlreadyPaid"
            /\ orders' = orders /\ stock' = stock]_vars

\* a payment refused on an order paid at an earlier date
C8_Witness ==
    \E p \in Procs :
        /\ h[p].op = "markOrderAsPaid" /\ h[p].pc = "done"
        /\ h[p].status = 400 /\ h[p].err = "AlreadyPaid"
        /\ orders[h[p].id].isPaid /\ orders[h[p].id].paidAt >= 1 /\ orders[h[p].id].paidAt < h[p].t
        /\ Len(orders[h[p].id].statusHistory) = 1

\* the "Payment Confirmed" entries of an order's statusHistory
PaymentEntries(o) ==
    {i \in 1..Len(o.statusHistory) : o.statusHistory[i].status = "Payment Confirmed"}

\* C9: of two markOrderAsPaid requests racing on one unpaid order at most one
\* answers 200, and the order gets exactly one "Payment Confirmed" entry.
C9_AtMostOnePayment ==
    /\ \A k \in OrderIds : Cardinality(PaymentEntries(orders[k])) <= 1
    /\ \A p, q \in Procs :
        (/\ p # q /\ h[p].op = "markOrderAsPaid" /\ h[q].op = "markOrderAsPaid"
         /\ h[p].id = h[q].id /\ h[p].pc = "done" /\ h[q].pc = "done")
            => ~(h[p].status = 200 /\ h[q].status = 200)

\* C10: a markOrderAsDelivered that reads an unpaid order answers 400 "cannot
\* deliver unpaid order", one that reads a delivered order answers 400
\* "already delivered", and both leave the order as it was.
C10_DeliverRefused ==
    [][\A p \in Procs :
        (Leaves(p, "deliverLoad") /\ h[p].id \in OrderIds) =>
            LET o == orders[h[p].id]
            IN /\ ~o.isPaid =>
                    /\ h'[p].pc = "done" /\ h'[p].status = 400
                    /\ h'[p].err = "CannotDeliverUnpaid"
                    /\ orders' = orders
               /\ (o.isPaid /\ o.isDelivered) =>
                    /\ h'[p].pc = "done" /\ h'[p].status = 400
                    /\ h'[p].err = "AlreadyDelivered"
                    /\ orders' = orders]_vars

\* a delivery refused on an order delivered at an earlier date
C10_Witness ==
    \E p \in Procs :
        /\ h[p].op = "markOrderAsDelivered" /\ h[p].pc = "done"
        /\ h[p].status = 400 /\ h[p].err = "AlreadyDelivered"
        /\ orders[h[p].id].isDelivered /\ orders[h[p].id].deliveredAt < h[p].t

\* C11: every stored order that is delivered is paid, whatever pay, deliver,
\* cancel, cancel-item, status and bulk-update requests have run.
C11_DeliveredImpliesPaid ==
    \A k \in OrderIds : orders[k].isDelivered => orders[k].isPaid

\* the step in which process p answers a cancelOrder or cancelOrderItem request
AnswersCancel(p) ==
    /\ h[p].pc \in {"cancelBegin", "cancelBody", "itemBegin", "itemBody"}
    /\ h'[p].pc = "done"

\* C12: a cancelOrder or cancelOrderItem that is answered while the stored
\* order is delivered fails (400 when the actor is authorized and the order's
\* checks answer it) and leaves the orders and every countInStock as they
\* were, also when it was started before the delivery was saved.
C12_DeliveredBlocksCancel ==
    [][\A p \in Procs :
        (AnswersCancel(p) /\ h[p].id \in OrderIds /\ orders[h[p].id].isDelivered) =>
            /\ h'[p].status \in {400, 403, 500}
            /\ (isOwnerOrAdmin(orders[h[p].id].user, h[p].user)
                    /\ h[p].pc \in {"cancelBegin", "itemBegin"}) => h'[p].status = 400
            /\ orders' = orders /\ stock' = stock]_vars

\* a cancelOrder that arrived before the delivery of its order and was
\* answered after it
C12_Witness ==
    \E p, q \in Procs :
        /\ p # q /\ Concurrent(p, q) /\ h[p].t < h[q].t /\ h[p].id = h[q].id
        /\ h[q].op = "markOrderAsDelivered" /\ h[q].status = 200
        /\ h[p].op = "cancelOrder" /\ h[p].status = 400
        /\ h[p].err = "CannotCancelDelivered"
        /\ orders[h[p].id].isDelivered /\ ~orders[h[p].id].isCanceled

\* C13: a markOrderAsPaid, markOrderAsDelivered or cancelOrderItem that reads
\* an order cancelOrder has canceled is refused there and then.
C13_CanceledIsTerminal ==
    [][\A p \in Procs :
        (/\ \/ Leaves(p, "payLoad") \/ Leaves(p, "deliverLoad") \/ Leaves(p, "itemBegin")
         /\ h[p].id \in OrderIds /\ orders[h[p].id].isCanceled)
            => (h'[p].pc = "done" /\ h'[p].status # 200)]_vars

\* C14: a cancelOrder in which a stock update or order.save rejects, like every
\* cancelOrder that does not answer 200, leaves the order (isCanceled,
\* statusHistory) and every countInStock as they were.
C14_CancelAllOrNothing ==
    [][\A p \in Procs :
        (h[p].pc \in {"cancelBegin", "cancelBody"} /\ h'[p].pc = "done" /\ h'[p].status # 200)
            => (orders' = orders /\ stock' = stock)]_vars

\* a cancelOrder of an order with two live items that failed at a stock update
C14_Witness ==
    \E p \in Procs :
        /\ h[p].op = "cancelOrder" /\ h[p].pc = "done"
        /\ h[p].status = 500 /\ h[p].err = "RestoreFailed"
        /\ LET o == orders[h[p].id]
           IN /\ ~o.isCanceled /\ o.statusHistory = <<>>
              /\ Len(o.orderItems) = 2
              /\ \A i \in 1..2 : ~o.orderItems[i].isCanceled
        /\ stock = h[p].stockAtArrival

\* user is neither the owner of order id nor an admin
Stranger(id, user) == orders[id].user # user /\ ~IsAdmin(user)

\* C15: a cancelOrder or cancelOrderItem on an existing order from a user who
\* is neither its owner nor an admin is answered 403 and changes no order and
\* no countInStock.
C15_StrangerRefused ==
    [][\A p \in Procs :
        (/\ Leaves(p, "cancelBegin") \/ Leaves(p, "itemBegin")
         /\ h[p].id \in OrderIds /\ Stranger(h[p].id, h[p].user))
            => /\ h'[p].pc = "done" /\ h'[p].status = 403
               /\ h'[p].err = "NotAuthorized"
               /\ orders' = orders /\ stock' = stock]_vars

C15_Witness ==
    \E p \in Procs :
        /\ h[p].op = "cancelOrderItem" /\ h[p].pc = "done" /\ h[p].status = 403
        /\ h[p].id \in OrderIds /\ Stranger(h[p].id, h[p].user)
        /\ ~orders[h[p].id].isCanceled /\ stock = h[p].stockAtArrival

\* the line items of o for product pid that are not canceled
LiveItems(o, pid) ==
    {i \in 1..Len(o.orderItems) : o.orderItems[i].product = pid /\ ~o.orderItems[i].isCanceled}

\* C16: a cancelOrderItem from an authorized user on an order not delivered
\* that has no live line item for productId is answered 404 item-not-found and
\* changes nothing; one that succeeds cancels exactly one live line item and
\* gives back that item's quantity, so no line item is given back twice.
C16_ItemNotFound ==
    [][\A p \in Procs :
        /\ (/\ Leaves(p, "itemBegin") /\ h[p].id \in OrderIds
            /\ ~Stranger(h[p].id, h[p].user) /\ ~orders[h[p].id].isDelivered
            /\ LiveItems(orders[h[p].id], h[p].pid) = {})
                => /\ h'[p].pc = "done" /\ h'[p].status = 404
                   /\ h'[p].err = "ItemNotFound"
                   /\ orders' = orders /\ stock' = stock
        /\ (Answers(p, "itemBody") /\ h'[p].status = 200) =>
                \E i \in LiveItems(orders[h[p].id], h[p].pid) :
                    /\ LiveItems(orders'[h[p].id], h[p].pid)
                            = LiveItems(orders[h[p].id], h[p].pid) \ {i}
                    /\ stock' = [stock EXCEPT ![h[p].pid] =
                                    @ + orders[h[p].id].orderItems[i].qty]]_vars

\* a second cancelOrderItem for a line item the first one canceled
C16_Witness ==
    \E p \in Procs :
        /\ h[p].op = "cancelOrderItem" /\ h[p].pc = "done"
        /\ h[p].status = 404 /\ h[p].err = "ItemNotFound"
        /\ \E i \in 1..Len(orders[h[p].id].orderItems) :
                /\ orders[h[p].id].orderItems[i].product = h[p].pid
                /\ orders[h[p].id].orderItems[i].isCanceled
        /\ stock = h[p].stockAtArrival

\* C17: the step in which markOrderAsPaid, markOrderAsDelivered, cancelOrder
\* or cancelOrderItem answers 200 adds exactly one entry to the statusHistory
\* of its order.
C17_OneHistoryEntry ==
    [][\A p \in Procs :
        (\/ h[p].pc = "paySave" /\ h'[p].pc = "payMail"
         \/ h[p].pc = "deliverSave" /\ h'[p].pc = "deliverMail"
         \/ h[p].pc \in {"cancelBody", "itemBody"} /\ h'[p].pc = "done" /\ h'[p].status = 200)
            => Len(orders'[h[p].id].statusHistory)
                    = Len(orders[h[p].id].statusHistory) + 1]_vars

\* salePrice when one is set and saleEndDate is after date t, otherwise price
EffectivePrice(d, t) ==
    IF SalePrice[d] # Undef /\ SaleEndDate[d] # NoDate /\ SaleEndDate[d] > t
    THEN SalePrice[d] ELSE Price[d]

C19_PriceChecked ==
    [][\A p \in Procs :
        Stores(p) =>
            /\ h[p].body.itemsPrice # Undef
            /\ Abs(orders'[Len(orders')].itemsPrice - h[p].body.itemsPrice) <= Tolerance]_vars

\* C20: createOrder answers each of its business-rule failures with a 4xx
\* status, and a failed save with a 5xx.
C20_ClientErrors ==
    \A p \in Procs :
        (h[p].op = "createOrder" /\ h[p].pc = "done") =>
            /\ h[p].err \in {"EmptyOrder", "InvalidShippingAddress", "InvalidPaymentMethod",
                             "ProductNotFound", "OutOfStock", "PriceMismatch"}
                    => (h[p].status >= 400 /\ h[p].status < 500)
            /\ h[p].err = "SaveFailed" => h[p].status >= 500

\* C21: markOrderAsPaid (with payment details), markOrderAsDelivered,
\* cancelOrder, cancelOrderItem, getOrderStatusTimeline and reorder answer a
\* request whose order id matches no order with 404.
C21_UnknownOrderIs404 ==
    \A p \in Procs :
        (/\ h[p].pc = "done"
         /\ h[p].id = NoSuchOrder
         /\ h[p].op \in {"markOrderAsPaid", "markOrderAsDelivered", "cancelOrder",
                          "cancelOrderItem", "getOrderStatusTimeline", "reorder"}
         /\ h[p].op = "markOrderAsPaid" => h[p].pay.id # NoPayId)
            => h[p].status = 404

\* C22: a reorder of an order none of whose non-canceled items has
\* countInStock >= its quantity is answered 400 NothingToReorder with exactly
\* those items in unavailableItems, and stores no order and changes no stock.
C22_NothingToReorder ==
    [][\A p \in Procs :
        LET items == h[p].items
            live == {i \in DOMAIN items : ~items[i].isCanceled}
        IN (/\ Leaves(p, "reorderPopulate")
            /\ \A i \in live : stock[items[i].product] < items[i].qty)
            => /\ h'[p].pc = "done" /\ h'[p].status = 400 /\ h'[p].err = "NothingToReorder"
               /\ Len(h'[p].reported) = Cardinality(live)
               /\ \A i \in live : \E j \in DOMAIN h'[p].reported :
                    h'[p].reported[j] = [product |-> items[i].product,
                                            requestedQty |-> items[i].qty,
                                            availableQty |-> stock[items[i].product]]
               /\ orders' = orders /\ stock' = stock]_vars

\* a reorder refused because the product of its order's item is sold out
C22_Witness ==
    \E p \in Procs :
        /\ h[p].op = "reorder" /\ h[p].pc = "done"
        /\ h[p].status = 400 /\ h[p].err = "NothingToReorder"
        /\ Len(h[p].reported) >= 1
        /\ \A i \in DOMAIN h[p].reported : h[p].reported[i].availableQty = 0
        /\ orders[h[p].id].user = h[p].user

\* C23: the response of a reorder answered 201 carries in unavailableItems
\* every non-canceled item of the original order that was left out of the new
\* order for lack of stock.
C23_ExcludedItemsReported ==
    \A p \in Procs :
        (h[p].op = "reorder" /\ h[p].pc = "done" /\ h[p].status = 201)
            => h[p].reported = h[p].unavailable

\* C24: when the notification sender fails, the createOrder, markOrderAsPaid
\* or markOrderAsDelivered that awaits it still answers its success status and
\* nothing stored is undone; and the failure of a cancellation or
\* item-cancellation notification, which settles after the response, changes
\* neither stock, nor orders, nor any response.
C24_SenderFailureIsIgnored ==
    [][/\ \A p \in Procs :
            (h[p].pc \in {"createMail", "payMail", "deliverMail"} /\ h'[p].mail = "failed")
                => /\ h'[p].pc = "done"
                   /\ h'[p].status = (IF h[p].pc = "createMail" THEN 201 ELSE 200)
                   /\ orders' = orders /\ stock' = stock
       /\ (\E m \in outbox' : m.state = "failed" /\ m \notin outbox)
            => (orders' = orders /\ stock' = stock /\ h' = h)]_vars

\* a createOrder answered 201 whose confirmation email failed and whose order
\* is stored, and a cancellation that stands after its email failed
C24_Witness ==
    /\ \E p \in Procs :
        /\ h[p].op = "createOrder" /\ h[p].pc = "done"
        /\ h[p].mail = "failed" /\ h[p].status = 201
        /\ orders[Len(orders)].createdAt = h[p].t
    /\ \E m \in outbox :
        /\ m.state = "failed" /\ m.kind = "Order Canceled"
        /\ orders[m.id].isCanceled

\* C25: a createOrder, markOrderAsPaid or markOrderAsDelivered that has stored
\* its change and handed the notification to the sender eventually sends its
\* response, whether or not the sender ever completes.
C25_ResponseNotBlocked ==
    \A p \in Procs :
        (h[p].pc \in {"createMail", "payMail", "deliverMail"}) ~> (h[p].pc = "done")

\* C26: the timeline a getOrderStatusTimeline answers 200 with is in ascending
\* timestamp order: every event has a timestamp, and none is later than the
\* event after it.
C26_TimelineAscending ==
    \A p \in Procs :
        (h[p].op = "getOrderStatusTimeline" /\ h[p].pc = "done" /\ h[p].status = 200)
            => /\ \A i \in DOMAIN h[p].timeline : h[p].timeline[i].date # NoDate
               /\ \A i \in 1..(Len(h[p].timeline) - 1) :
                    h[p].timeline[i].date <= h[p].timeline[i + 1].date

\* C27: a product's countInStock goes down only in the step in which a
\* createOrder or reorder commits its order, and up only in the step in which
\* a cancelOrder or cancelOrderItem commits and answers 200; no step of
\* markOrderAsPaid, markOrderAsDelivered, updateOrderStatus,
\* updateShippingAddress, changePaymentMethod, bulkUpdateOrders or
\* getOrderStatusTimeline, and no step that answers a request with an error,
\* changes it.
C27_OnlyOrdersMoveStock ==
    [][/\ \A d \in Products :
            /\ stock'[d] < stock[d] =>
                    \E p \in Procs :
                        /\ h[p].op \in {"createOrder", "reorder"}
                        /\ h[p].pc = "createBody" /\ h'[p].pc = "createMail"
            /\ stock'[d] > stock[d] =>
                    \E p \in Procs :
                        /\ h[p].op \in {"cancelOrder", "cancelOrderItem"}
                        /\ h[p].pc \in {"cancelBody", "itemBody"}
                        /\ h'[p].pc = "done" /\ h'[p].status = 200
       /\ \A p \in Procs :
            (\/ h'[p] # h[p] /\ h'[p].op \in {"markOrderAsPaid", "markOrderAsDelivered",
                                               "updateOrderStatus", "updateShippingAddress",
                                               "changePaymentMethod", "bulkUpdateOrders",
                                               "getOrderStatusTimeline"}
             \/ h[p].pc # "done" /\ h'[p].pc = "done" /\ h'[p].status >= 400)
                => stock' = stock]_vars

\* stock restored by a cancelOrder answered 200, beside a markOrderAsPaid
\* answered 200 and a refused request
C27_Witness ==
    \E p, q \in Procs :
        /\ h[p].op = "cancelOrder" /\ h[p].pc = "done" /\ h[p].status = 200
        /\ \E d \in Products : stock[d] > h[p].stockAtArrival[d]
        /\ h[q].pc = "done"
        /\ \/ h[q].op = "markOrderAsPaid" /\ h[q].status = 200
           \/ h[q].op = "createOrder" /\ h[q].status = 400

\* the orders with the customStatus of every one of them replaced by st
WithCustomStatus(os, st) == [i \in DOMAIN os |-> [os[i] EXCEPT !.customStatus = st]]

\* C28: the save of updateOrderStatus changes, of everything stored, only
\* customStatus and statusHistory of its order; and what markOrderAsPaid,
\* markOrderAsDelivered, cancelOrder and cancelOrderItem answer after
\* loading the order is what they would answer were its customStatus any
\* other status.
C28_CustomStatusIsDecorative ==
    [][\A p \in Procs :
        /\ Leaves(p, "statusSave") =>
                /\ stock' = stock
                /\ DOMAIN orders' = DOMAIN orders
                /\ \A i \in DOMAIN orders :
                    [orders'[i] EXCEPT !.customStatus = orders[i].customStatus,
                                       !.statusHistory = orders[i].statusHistory] = orders[i]
                /\ \A i \in DOMAIN orders : i # h[p].id => orders'[i] = orders[i]
        /\ \A st \in validStatuses :
            LET os == WithCustomStatus(orders, st)
            IN /\ Leaves(p, "payLoad")
                    => h'[p].err = PayCheck(os, h[p].id, h[p].user, h[p].pay)
               /\ Leaves(p, "deliverLoad") => h'[p].err = DeliverCheck(os, h[p].id)
               /\ Leaves(p, "cancelBegin") => h'[p].err = CancelCheck(os, h[p].id, h[p].user)
               /\ Leaves(p, "itemBegin")
                    => h'[p].err = ItemCheck(os, h[p].id, h[p].pid, h[p].user)]_vars

\* an order whose customStatus an admin had set to "Canceled" and that was
\* paid afterwards, its isCanceled flag still unset
C28_Witness ==
    \E p \in Procs :
        /\ h[p].op = "markOrderAsPaid" /\ h[p].pc = "done" /\ h[p].status = 200
        /\ orders[h[p].id].customStatus = "Canceled"
        /\ orders[h[p].id].isPaid /\ orders[h[p].id].paidAt = h[p].t
        /\ ~orders[h[p].id].isCanceled
        /\ \E i \in DOMAIN orders[h[p].id].statusHistory :
            /\ orders[h[p].id].statusHistory[i].status = "Canceled"
            /\ orders[h[p].id].statusHistory[i].changedAt < h[p].t

\* C29: the itemsPrice of every stored order is the sum of price x qty over
\* its line items that are not canceled.
C29_ItemsPriceIsLiveSum ==
    \A k \in OrderIds :
        orders[k].itemsPrice =
            SumSeq([i \in DOMAIN orders[k].orderItems |->
                        IF orders[k].orderItems[i].isCanceled THEN 0
                        ELSE orders[k].orderItems[i].price * orders[k].orderItems[i].qty])

\* an order of two items, the first canceled by cancelOrderItem and the order
\* canceled by cancelOrder afterwards
C29_Witness ==
    \E k \in OrderIds :
        /\ Len(orders[k].orderItems) = 2
        /\ orders[k].orderItems[1].isCanceled /\ ~orders[k].orderItems[2].isCanceled
        /\ orders[k].isCanceled
        /\ orders[k].itemsPrice = orders[k].orderItems[2].price * orders[k].orderItems[2].qty

\* C30: every cancellation notification handed to the sender belongs to a
\* cancellation that is committed (its order is stored as canceled by that
\* request, or holds a canceled item), and no request hands over a second one.
C30_NotifiedOnlyOnCommit ==
    \A m \in outbox :
        /\ m.try = 1
        /\ m.kind = "Order Canceled"
                => (orders[m.id].isCanceled /\ orders[m.id].canceledAt = m.t)
        /\ m.kind = "Item Canceled"
                => \E i \in DOMAIN orders[m.id].orderItems : orders[m.id].orderItems[i].isCanceled

====
